---- MODULE Spec2Model ----
(***************************************************************************)
(* AsciiArtist (src/main.rs): the renderer `main` as a state machine.      *)
(*                                                                         *)
(* The program's arithmetic is IEEE-754 binary32 (`f32`).  It is modelled  *)
(* bit-exactly: an f32 value is a record [s, m, e] standing for            *)
(* s * m * 2^e with s in {1,-1} and either m = 0 or 2^23 <= m < 2^24, and  *)
(* every operation rounds to nearest, ties to even, as the hardware does.  *)
(* All intermediate integers stay below 2^31.                              *)
(***************************************************************************)
EXTENDS Integers, Sequences, FiniteSets, TLC

----------------------------------------------------------------------------
(* Integer helpers                                                         *)

Pow2Table ==
    <<1, 2, 4, 8, 16, 32, 64, 128, 256, 512, 1024, 2048, 4096, 8192, 16384,
      32768, 65536, 131072, 262144, 524288, 1048576, 2097152, 4194304,
      8388608, 16777216, 33554432, 67108864, 134217728, 268435456,
      536870912, 1073741824>>

Pow2(n) == Pow2Table[n + 1]

RECURSIVE BitLen(_)
BitLen(n) == IF n <= 0 THEN 0 ELSE 1 + BitLen(n \div 2)

Min(a, b) == IF a <= b THEN a ELSE b

Max(a, b) == IF a >= b THEN a ELSE b

----------------------------------------------------------------------------
(* binary32                                                                *)

F32Zero == [s |-> 1, m |-> 0, e |-> 0]

(* The f32 nearest to s * (n + f) * 2^e, where 0 <= f < 1 and sticky says  *)
(* whether f > 0.  When sticky is set n carries at least 25 bits.          *)
F32Round(s, n, e, sticky) ==
    IF n = 0 THEN [s |-> s, m |-> 0, e |-> 0]
    ELSE LET bl == BitLen(n) IN
         IF bl <= 24
         THEN [s |-> s, m |-> n * Pow2(24 - bl), e |-> e - (24 - bl)]
         ELSE LET sh   == bl - 24
                  q    == n \div Pow2(sh)
                  r    == n % Pow2(sh)
                  half == Pow2(sh - 1)
                  up   == \/ r > half
                          \/ r = half /\ sticky
                          \/ r = half /\ ~sticky /\ q % 2 = 1
                  m1   == IF up THEN q + 1 ELSE q
              IN IF m1 = Pow2(24)
                 THEN [s |-> s, m |-> Pow2(23), e |-> e + sh + 1]
                 ELSE [s |-> s, m |-> m1, e |-> e + sh]

(* `n as f32` for a non-negative integer n.                                *)
F32FromInt(n) == F32Round(1, n, 0, FALSE)

(* Long division: k more quotient bits of r / d, r < d.  Returns <<q, r>>. *)
RECURSIVE LongDiv(_, _, _, _)
LongDiv(q, r, d, k) ==
    IF k = 0 THEN <<q, r>>
    ELSE IF 2 * r >= d
         THEN LongDiv(2 * q + 1, 2 * r - d, d, k - 1)
         ELSE LongDiv(2 * q, 2 * r, d, k - 1)

(* a / b, b non-zero.                                                      *)
F32Div(a, b) ==
    IF a.m = 0 THEN [s |-> a.s * b.s, m |-> 0, e |-> 0]
    ELSE LET q0 == IF a.m >= b.m THEN 1 ELSE 0
             qr == LongDiv(q0, a.m - q0 * b.m, b.m, 26)
         IN F32Round(a.s * b.s, qr[1], a.e - b.e - 26, qr[2] # 0)

(* a * b; the 48-bit product is formed in 12-bit limbs.                    *)
F32Mul(a, b) ==
    IF a.m = 0 \/ b.m = 0 THEN [s |-> a.s * b.s, m |-> 0, e |-> 0]
    ELSE LET h1 == a.m \div 4096
             l1 == a.m % 4096
             h2 == b.m \div 4096
             l2 == b.m % 4096
             p0 == l1 * l2
             d0 == p0 % 4096
             t1 == h1 * l2 + l1 * h2 + (p0 \div 4096)
             d1 == t1 % 4096
             t2 == h1 * h2 + (t1 \div 4096)
         IN F32Round(a.s * b.s, t2 * 4 + (d1 \div 1024),
                     a.e + b.e + 22, (d1 % 1024 # 0) \/ (d0 # 0))

(* a + b for a, b >= 0.                                                    *)
F32Add(a, b) ==
    IF a.m = 0 THEN b
    ELSE IF b.m = 0 THEN a
    ELSE LET hi == IF a.e >= b.e THEN a ELSE b
             lo == IF a.e >= b.e THEN b ELSE a
             d  == hi.e - lo.e
         IN IF d >= 27 THEN hi
            ELSE F32Round(1, hi.m * 4 + ((lo.m * 4) \div Pow2(d)),
                          hi.e - 2, (lo.m * 4) % Pow2(d) # 0)

(* Integers at or above IntCap = 2^30 are represented by IntCap.           *)
IntCap == Pow2(30)

(* `a as uN` for a >= 0 below IntCap: truncation toward zero; negative     *)
(* values saturate to 0 (Rust's float-to-int cast).                        *)
F32Trunc(a) ==
    IF a.m = 0 \/ a.s < 0 THEN 0
    ELSE IF a.e >= 0
         THEN IF a.e >= 7 THEN IntCap ELSE a.m * Pow2(a.e)
         ELSE IF -a.e >= 25 THEN 0 ELSE a.m \div Pow2(-a.e)

(* `a.round() as uN`: f32::round rounds half away from zero.               *)
F32RoundToNat(a) ==
    IF a.m = 0 \/ a.s < 0 THEN 0
    ELSE IF a.e >= 0
         THEN IF a.e >= 7 THEN IntCap ELSE a.m * Pow2(a.e)
         ELSE IF -a.e >= 26 THEN 0
              ELSE LET p == Pow2(-a.e)
                   IN (a.m \div p) + (IF 2 * (a.m % p) >= p THEN 1 ELSE 0)

----------------------------------------------------------------------------
(* Inputs of one invocation                                                *)

MaxWidth == 3

MaxDim == 3

(* " .:-=+*#%@": the default of --charset, as Unicode scalar values.       *)
DefaultCharset == <<32, 46, 58, 45, 61, 43, 42, 35, 37, 64>>

(* A two-glyph ramp of block characters U+2591, U+2588 (3 bytes each).     *)
BlockCharset == <<9617, 9608>>

Charsets == {DefaultCharset, BlockCharset, <<35>>, <<>>}

Half == [s |-> 1, m |-> 8388608, e |-> -24]

One == [s |-> 1, m |-> 8388608, e |-> -23]

NegHalf == [s |-> -1, m |-> 8388608, e |-> -24]

AspectFactors == {Half, One, F32Zero, NegHalf}

Patterns == {"white", "black", "hgrad", "hrev", "red3"}

(* What image::open finds at the input path: a decoded image with positive *)
(* dimensions, or nothing decodable.                                       *)
Unreadable == [ok |-> FALSE, width |-> 0, height |-> 0, pat |-> "none"]

SmallFiles ==
    { [ok |-> TRUE, width |-> w, height |-> h, pat |-> p] :
        w \in 1..MaxDim, h \in 1..MaxDim, p \in Patterns } \cup {Unreadable}

WideFile == [ok |-> TRUE, width |-> 200, height |-> 100, pat |-> "hgrad"]

SmallRuns ==
    [ color_flag : BOOLEAN, width : 0..MaxWidth, charset : Charsets,
      aspect : AspectFactors, file : SmallFiles ]

WideRuns ==
    [ color_flag : BOOLEAN, width : {100}, charset : {DefaultCharset},
      aspect : {Half}, file : {WideFile} ]

Runs == SmallRuns \cup WideRuns

----------------------------------------------------------------------------
(* The pieces of main                                                      *)

(* Args::color: a bool flag (ArgAction::SetTrue) whose default is true:    *)
(* the flag sets true, its absence leaves the default, true.               *)
ArgsColor(color_flag) == IF color_flag THEN TRUE ELSE TRUE

(* Number of bytes of the UTF-8 encoding of a scalar value.                *)
Utf8Len(c) == IF c < 128 THEN 1 ELSE IF c < 2048 THEN 2
              ELSE IF c < 65536 THEN 3 ELSE 4

(* String::len: the length in bytes.                                       *)
RECURSIVE StrLen(_)
StrLen(str) == IF str = <<>> THEN 0 ELSE Utf8Len(Head(str)) + StrLen(Tail(str))

(* DynamicImage::get_pixel as supplied by the decoder, for the test images *)
GetPixel(f, px, py) ==
    LET g == (px * 255) \div Max(1, f.width - 1) IN
    CASE f.pat = "white"  -> <<255, 255, 255>>
      [] f.pat = "black"  -> <<0, 0, 0>>
      [] f.pat = "hgrad"  -> <<g, g, g>>
      [] f.pat = "hrev"   -> <<255 - g, 255 - g, 255 - g>>
      [] OTHER            -> <<3, 0, 0>>

(* get_pixel panics outside the image.                                     *)
InBounds(f, px, py) == px < f.width /\ py < f.height

(* new_height with the compensation factor left out.                      *)
NewHeightNoAspect(output_width, original_width, original_height, aspect) ==
    LET image_aspect_ratio ==
            F32Div(F32FromInt(original_height), F32FromInt(original_width))
    IN F32RoundToNat(F32Mul(F32FromInt(output_width), image_aspect_ratio))

(* new_height, line 137-138.                                               *)
NewHeight(output_width, original_width, original_height, aspect) ==
    LET image_aspect_ratio ==
            F32Div(F32FromInt(original_height), F32FromInt(original_width))
    IN F32RoundToNat(F32Mul(F32Mul(F32FromInt(output_width),
                                   image_aspect_ratio), aspect))

(* original_x_coord / original_y_coord, lines 143-144.                     *)
SrcCoord(i, n, dim) ==
    F32Trunc(F32Mul(F32Div(F32FromInt(i), F32FromInt(n)), F32FromInt(dim)))

(* The f32 literals 0.2126, 0.7152, 0.0722 and 255.0.                      *)
CoefR == [s |-> 1, m |-> 14267344, e |-> -26]

CoefG == [s |-> 1, m |-> 11999065, e |-> -24]

CoefB == [s |-> 1, m |-> 9690520, e |-> -27]

F255 == [s |-> 1, m |-> 16711680, e |-> -16]

(* brightness of the negative image.                                      *)
BrightnessInverted(pixel) ==
    255 - Min(255, F32Trunc(F32Add(F32Add(F32Mul(CoefR, F32FromInt(pixel[1])),
                                          F32Mul(CoefG, F32FromInt(pixel[2]))),
                                   F32Mul(CoefB, F32FromInt(pixel[3])))))

(* brightness, line 152: the cast `as u8` truncates and saturates at 255.  *)
Brightness(pixel) ==
    Min(255, F32Trunc(F32Add(F32Add(F32Mul(CoefR, F32FromInt(pixel[1])),
                                    F32Mul(CoefG, F32FromInt(pixel[2]))),
                             F32Mul(CoefB, F32FromInt(pixel[3])))))

(* `ascii_chars.len() - 1` overflows for the empty string: a panic in a    *)
(* build with overflow checks, a wrap to usize::MAX otherwise.             *)
LenUnderflows(len) == len = 0

(* `(len - 1) as f32`; usize::MAX as f32 is 2^64.                          *)
LenMinusOneF32(len) ==
    IF len = 0 THEN [s |-> 1, m |-> 8388608, e |-> 41]
    ELSE F32FromInt(len - 1)

(* char_index scaled by len instead of len - 1.                            *)
CharIndexLen(brightness, len) ==
    F32RoundToNat(F32Mul(F32Div(F32FromInt(brightness), F255),
                         F32FromInt(len)))

(* char_index, line 154.                                                   *)
CharIndex(brightness, len) ==
    F32RoundToNat(F32Mul(F32Div(F32FromInt(brightness), F255),
                         LenMinusOneF32(len)))

(* ascii_char, line 155: chars().nth(char_index).unwrap_or(' ').           *)
AsciiChar(str, char_index) ==
    IF char_index < Len(str) THEN str[char_index + 1] ELSE 32

(* The column loop run over the image's width.                            *)
ColRangeOfImage(output_width, original_width) == 0..(original_width - 1)

(* `for x in 0..output_width` and `for y in 0..new_height`.                *)
ColRange(output_width, original_width) == 0..(output_width - 1)

RowRange(new_height, original_height) == 0..(new_height - 1)

NoColor == <<>>

----------------------------------------------------------------------------
VARIABLES
    run,             \* the invocation: command line and input file
    pc,              \* "open", "render", "done", "error", "panic"
    output_width, ascii_chars, enable_color, aspect_ratio_compensation,
    original_width, original_height, new_height,
    x, y,            \* loop counters
    row,             \* cells written on the current line
    rows,            \* lines completed by writeln
    samples,         \* number of get_pixel calls
    last,            \* locals of the latest loop body
    samp             \* the coordinate mapping applied to one loop position

vars == <<run, pc, output_width, ascii_chars, enable_color,
          aspect_ratio_compensation, original_width, original_height,
          new_height, x, y, row, rows, samples, last, samp>>

NoLast == [sx |-> 0, sy |-> 0, pixel |-> <<0, 0, 0>>, brightness |-> 0,
           char_index |-> 0]

NoSamp == [i |-> 0, n |-> 1, dim |-> 1, out |-> 0, done |-> FALSE]

(* After Args::parse, lines 117-128.                                       *)
Init ==
    /\ run \in Runs
    /\ pc = "open"
    /\ output_width = run.width
    /\ ascii_chars = run.charset
    /\ enable_color = ArgsColor(run.color_flag)
    /\ aspect_ratio_compensation = run.aspect
    /\ original_width = 0
    /\ original_height = 0
    /\ new_height = 0
    /\ x = 0
    /\ y = 0
    /\ row = <<>>
    /\ rows = <<>>
    /\ samples = 0
    /\ last = NoLast
    /\ samp = NoSamp

(* image::open and the dimensions, lines 131-138.                          *)
LoadImage ==
    /\ pc = "open"
    /\ IF run.file.ok
       THEN /\ pc' = "render"
            /\ original_width' = run.file.width
            /\ original_height' = run.file.height
            /\ new_height' = NewHeight(output_width, run.file.width,
                                       run.file.height,
                                       aspect_ratio_compensation)
       ELSE /\ pc' = "error"
            /\ UNCHANGED <<original_width, original_height, new_height>>
    /\ UNCHANGED <<run, output_width, ascii_chars, enable_color,
                   aspect_ratio_compensation, x, y, row, rows, samples,
                   last, samp>>

(* One iteration of the inner loop, lines 143-163.  Where the subtraction  *)
(* `len() - 1` underflows, the build decides: a panic with overflow checks *)
(* (debug profile), a wrap-around without them (release profile).          *)
Pixel ==
    /\ pc = "render"
    /\ y \in RowRange(new_height, original_height)
    /\ x \in ColRange(output_width, original_width)
    /\ LET sx == SrcCoord(x, output_width, original_width)
           sy == SrcCoord(y, new_height, original_height)
       IN IF ~InBounds(run.file, sx, sy)
          THEN /\ pc' = "panic"
               /\ last' = [NoLast EXCEPT !.sx = sx, !.sy = sy]
               /\ UNCHANGED <<x, row, samples>>
          ELSE LET pixel      == GetPixel(run.file, sx, sy)
                   brightness == Brightness(pixel)
                   len        == StrLen(ascii_chars)
                   char_index == CharIndex(brightness, len)
                   ascii_char == AsciiChar(ascii_chars, char_index)
                   Write ==
                       /\ pc' = pc
                       /\ last' = [sx |-> sx, sy |-> sy, pixel |-> pixel,
                                   brightness |-> brightness,
                                   char_index |-> char_index]
                       /\ row' = Append(row,
                              [ch |-> ascii_char, idx |-> char_index,
                               fg |-> IF enable_color THEN pixel
                                      ELSE NoColor])
                       /\ x' = x + 1
                   Overflow ==
                       /\ pc' = "panic"
                       /\ last' = [sx |-> sx, sy |-> sy, pixel |-> pixel,
                                   brightness |-> brightness,
                                   char_index |-> 0]
                       /\ UNCHANGED <<x, row>>
               IN /\ samples' = samples + 1
                  /\ IF LenUnderflows(len) THEN Overflow \/ Write ELSE Write
    /\ UNCHANGED <<run, output_width, ascii_chars, enable_color,
                   aspect_ratio_compensation, original_width,
                   original_height, new_height, y, rows, samp>>

(* End of the inner loop and writeln, line 165.                            *)
EndRow ==
    /\ pc = "render"
    /\ y \in RowRange(new_height, original_height)
    /\ x \notin ColRange(output_width, original_width)
    /\ rows' = Append(rows, row)
    /\ row' = <<>>
    /\ x' = 0
    /\ y' = y + 1
    /\ UNCHANGED <<run, pc, output_width, ascii_chars, enable_color,
                   aspect_ratio_compensation, original_width,
                   original_height, new_height, samples, last, samp>>

(* End of the outer loop, the summary and Ok(()), lines 168-172.           *)
Finish ==
    /\ pc = "render"
    /\ y \notin RowRange(new_height, original_height)
    /\ pc' = "done"
    /\ UNCHANGED <<run, output_width, ascii_chars, enable_color,
                   aspect_ratio_compensation, original_width,
                   original_height, new_height, x, y, row, rows, samples,
                   last, samp>>

(* Any write to stdout may fail; `?` returns the error from main.          *)
WriteFail ==
    /\ pc \in {"open", "render"}
    /\ pc' = "error"
    /\ UNCHANGED <<run, output_width, ascii_chars, enable_color,
                   aspect_ratio_compensation, original_width,
                   original_height, new_height, x, y, row, rows, samples,
                   last, samp>>

Next == LoadImage \/ Pixel \/ EndRow \/ Finish \/ WriteFail

Spec == Init /\ [][Next]_vars

----------------------------------------------------------------------------
(* The coordinate mapping of lines 143-144 as a function of the loop       *)
(* position: i is x or y, n is output_width or new_height, dim is the      *)
(* image's width or height.                                                *)

MaxPos == 8

(* A width just above 2^24, the first integer f32 cannot represent.  With  *)
(* `-w 16777217` on a 1x1 image new_height is 2^23 and row 0 visits every  *)
(* x below 16777217: the positions i = BigWidth - 2 and i = BigWidth - 1   *)
(* with n = BigWidth are loop positions of that run.                       *)
BigWidth == Pow2(24) + 1

SamplePositions ==
    { p \in [i : 0..MaxPos \cup {BigWidth - 2, BigWidth - 1},
             n : 1..(MaxPos + 1) \cup {BigWidth},
             dim : 1..MaxDim, out : {0}, done : {FALSE}] : p.i < p.n }

InitSample ==
    /\ samp \in SamplePositions
    /\ run = [color_flag |-> FALSE, width |-> samp.n,
              charset |-> DefaultCharset, aspect |-> Half,
              file |-> Unreadable]
    /\ pc = "sample"
    /\ output_width = run.width
    /\ ascii_chars = run.charset
    /\ enable_color = ArgsColor(run.color_flag)
    /\ aspect_ratio_compensation = run.aspect
    /\ original_width = 0
    /\ original_height = 0
    /\ new_height = 0
    /\ x = 0
    /\ y = 0
    /\ row = <<>>
    /\ rows = <<>>
    /\ samples = 0
    /\ last = NoLast

ApplySrcCoord ==
    /\ pc = "sample"
    /\ ~samp.done
    /\ samp' = [samp EXCEPT !.out = SrcCoord(samp.i, samp.n, samp.dim),
                            !.done = TRUE]
    /\ UNCHANGED <<run, pc, output_width, ascii_chars, enable_color,
                   aspect_ratio_compensation, original_width,
                   original_height, new_height, x, y, row, rows, samples,
                   last>>

NextSample == ApplySrcCoord

SpecSample == InitSample /\ [][NextSample]_vars

----------------------------------------------------------------------------
(* Properties                                                              *)

Terminated == pc \in {"done", "error", "panic"}

Cells == {row[i] : i \in 1..Len(row)}
           \cup UNION {{rows[k][i] : i \in 1..Len(rows[k])} : k \in 1..Len(rows)}

(* C1: a run with target_width = 0 is rejected as a configuration error:   *)
(* it never reaches the success summary and never samples a pixel.         *)
C1_ZeroWidthRejected ==
    output_width = 0 => (pc # "done" /\ samples = 0)

(* C2 as stated: a completed run has emitted NewHeight rows, and for       *)
(* width 100, a 200x100 image and aspect factor 0.5 that is 50 rows.       *)
C2_FiftyRows ==
    pc = "done" =>
        /\ Len(rows) = NewHeight(output_width, original_width,
                                 original_height, aspect_ratio_compensation)
        /\ (run.width = 100 /\ run.file = WideFile /\ run.aspect = Half)
              => Len(rows) = 50

(* C2 amended: a completed run has emitted exactly new_height rows, where  *)
(* new_height is round(width * (height / width_img) * aspect) in f32       *)
(* arithmetic cast to u32; for width 100, a 200x100 image and aspect       *)
(* factor 0.5 that is 25 rows.                                             *)
C2_RowCount ==
    pc = "done" =>
        /\ Len(rows) = new_height
        /\ row = <<>>
        /\ (run.width = 100 /\ run.file = WideFile /\ run.aspect = Half)
              => Len(rows) = 25
        /\ (run.width = 3 /\ run.file.width = 1 /\ run.file.height = 3)
              => Len(rows) = (IF run.aspect = One THEN 9
                              ELSE IF run.aspect = Half THEN 5 ELSE 0)

C2_Witness ==
    /\ pc = "done"
    /\ run.width = 100 /\ run.file = WideFile /\ run.aspect = Half
    /\ Len(rows) = 25

(* C3: an empty charset or a non-positive aspect factor is a configuration *)
(* error: the run neither crashes nor completes with the success summary.  *)
C3_InvalidConfigRejected ==
    (ascii_chars = <<>> \/ aspect_ratio_compensation.m = 0
                        \/ aspect_ratio_compensation.s < 0)
        => pc \notin {"done", "panic"}

(* C4: without the --color flag no cell is written with a foreground       *)
(* colour; with it every cell carries its sampled RGB.                     *)
C4_ColorOnlyWithFlag ==
    \A c \in Cells : IF run.color_flag THEN c.fg # NoColor
                     ELSE c.fg = NoColor

(* C5: every emitted row contains exactly target_width glyphs, whatever    *)
(* the source image's dimensions; a completed run leaves no partial row.   *)
C5_RowWidth ==
    /\ \A k \in 1..Len(rows) : Len(rows[k]) = run.width
    /\ Len(row) <= run.width
    /\ pc = "done" => row = <<>>

C5_Witness ==
    /\ pc = "done"
    /\ Len(rows) >= 2
    /\ run.width = 3
    /\ run.file.width = 2

OneByOne(pat) == run.file.ok /\ run.file.width = 1 /\ run.file.height = 1
                 /\ run.file.pat = pat

Luma(pixel) == 2126 * pixel[1] + 7152 * pixel[2] + 722 * pixel[3]

(* Row py of the image has non-decreasing luminance from left to right.    *)
GradientRow(f, py) ==
    \A a \in 0..(f.width - 2) :
        Luma(GetPixel(f, a, py)) <= Luma(GetPixel(f, a + 1, py))

C8_RoundedLuminance ==
    (samples > 0 /\ ascii_chars # <<>>) =>
        /\ last.brightness = (Luma(last.pixel) + 5000) \div 10000
        /\ last.brightness \in 0..255
        /\ last.char_index =
              (2 * last.brightness * (StrLen(ascii_chars) - 1) + 255) \div 510

(* C9: for a non-empty ramp the glyph index is within the ramp, luminance  *)
(* 0 selects its first character and luminance 255 its last, also when the *)
(* ramp's characters are not single-byte.                                  *)
C9_IndexWithinRamp ==
    (samples > 0 /\ ascii_chars # <<>> /\ Len(row) > 0) =>
        LET c == row[Len(row)] IN
        /\ c.idx \in 0..(Len(ascii_chars) - 1)
        /\ last.brightness = 0 => c.ch = ascii_chars[1]
        /\ last.brightness = 255 => c.ch = ascii_chars[Len(ascii_chars)]

(* C10: for every loop position 0 <= i < n the sampled source coordinate   *)
(* lies inside the image, 0 <= src < dim.                                  *)
C10_InsideImage ==
    samp.done => (0 <= samp.out /\ samp.out < samp.dim)

====
